---- MODULE Spec2Model ----
(***************************************************************************)
(* A model of ghh_json (src/ghh_json.h): the fat allocator, the page       *)
(* arena, the vector, the open-addressing hash map, the recursive-descent  *)
(* parser, the pretty-printer and the accessor API.                        *)
(*                                                                         *)
(* Text is a sequence of byte codes followed by an implicit NUL.  Pointers *)
(* are heap block numbers, 0 is NULL.  Values of the document tree are     *)
(* nested records; a json_object_t that lives in the arena is modelled by  *)
(* its contents.  The 64-bit build (INTPTR_MAX == INT64_MAX) is modelled.  *)
(***************************************************************************)
EXTENDS Integers, Sequences, FiniteSets, TLC

VARIABLES
    sut,    \* which part is exercised: "vec", "hmap" or "doc"
    heap,   \* the C heap: live blocks and whether an invalid free happened
    vec,    \* the json_vec_t under test (sut = "vec")
    hmap,   \* the json_hmap_t under test (sut = "hmap")
    hist,   \* ghost: the put calls made on hmap so far, <<key, object>>
    text,   \* the text handed to json_load
    pc,     \* where the document's life cycle stands
    json,   \* the json_t handle
    rep,    \* what the fatal error path printed, when it ran
    out,    \* the bytes json_fprint wrote
    json2,  \* the handle that re-loads out
    acc,    \* the last accessor call and how it ended
    junk    \* the indeterminate content of an uninitialised stack slot

vars == <<sut, heap, vec, hmap, hist, text, pc, json, rep, out, json2, acc, junk>>

-----------------------------------------------------------------------------
(* Bytes                                                                   *)

\* the byte codes the library names
CH == [nul |-> 0, bs |-> 8, tab |-> 9, lf |-> 10, ff |-> 12, cr |-> 13,
       sp |-> 32, dq |-> 34, plus |-> 43, comma |-> 44, minus |-> 45,
       dot |-> 46, slash |-> 47, d0 |-> 48, d9 |-> 57, colon |-> 58,
       E |-> 69, lbrack |-> 91, bsl |-> 92, rbrack |-> 93,
       a |-> 97, b |-> 98, e |-> 101, f |-> 102, i |-> 105, l |-> 108,
       n |-> 110, r |-> 114, s |-> 115, t |-> 116, u |-> 117,
       lbrace |-> 123, rbrace |-> 125]

\* sizeof on the modelled build
Sizeof == [ptr |-> 8, char |-> 1, json_vec_t |-> 32, json_hmap_t |-> 64,
           json_object_t |-> 16, json_hnode_t |-> 32]

\* the NULL of a heap block pointer, and the NULL of a json_object_t pointer
NULL == 0

NullObject == [type |-> "NULL"]

\* text[i] of a NUL-terminated C string, i counted from 0
At(t, i) == IF i < Len(t) THEN t[i + 1] ELSE CH.nul

-----------------------------------------------------------------------------
(* Heap and fat allocator                                                  *)

EmptyHeap == [blk |-> [x \in {} |-> 0], bad |-> FALSE]

\* JSON_MALLOC: the lowest free block number, as an allocator that reuses
\* released memory
Malloc(h, size) ==
    LET p == CHOOSE q \in 1..(Cardinality(DOMAIN h.blk) + 1) :
                 q \notin DOMAIN h.blk /\ \A o \in 1..(q - 1) : o \in DOMAIN h.blk
    IN [heap |-> [h EXCEPT !.blk = [x \in (DOMAIN h.blk) \cup {p} |->
                      IF x = p THEN [size |-> size, copied |-> 0] ELSE h.blk[x]]],
        ptr |-> p]

\* JSON_FREE: releasing a block that is not live is recorded in bad
Free(h, p) ==
    IF p \in DOMAIN h.blk
    THEN [h EXCEPT !.blk = [x \in (DOMAIN h.blk) \ {p} |-> h.blk[x]]]
    ELSE [h EXCEPT !.bad = TRUE]

json_fat_alloc(h, size) == Malloc(h, size)

json_fat_free(h, p) == Free(h, p)

json_fat_size(h, p) == h.blk[p].size

\* allocates fresh, copies the old block's size, releases the old block
json_fat_realloc(h, p, size) ==
    LET a == json_fat_alloc(h, size)
    IN IF p # NULL
       THEN [heap |-> json_fat_free(
                        [a.heap EXCEPT !.blk[a.ptr].copied = json_fat_size(h, p)], p),
             ptr |-> a.ptr]
       ELSE a

-----------------------------------------------------------------------------
(* Vector                                                                  *)

\* the capacity json_expect_array and json_expect_obj create with
InitCap == 8

json_vec_make(h, init_cap) ==
    LET a == json_fat_alloc(h, init_cap * Sizeof.ptr)
    IN [heap |-> a.heap,
        vec |-> [data |-> a.ptr, items |-> <<>>, size |-> 0,
                 cap |-> init_cap, min_cap |-> init_cap]]

\* vec->cap = cap; vec->data = the reallocated block a
json_vec_resized(v, cap, a) ==
    [heap |-> a.heap, vec |-> [v EXCEPT !.cap = cap, !.data = a.ptr]]

json_vec_alloc_one(h, v) ==
    IF v.size + 1 > v.cap
    THEN json_vec_resized(v, v.cap * 2,
             json_fat_realloc(h, v.data, (v.cap * 2) * Sizeof.ptr))
    ELSE [heap |-> h, vec |-> v]

\* json_vec_free_one without its test of min_cap
json_vec_free_one_below_min(h, v) ==
    IF v.size < v.cap \div 4
    THEN json_vec_resized(v, v.cap \div 2,
             json_fat_realloc(h, v.data, (v.cap \div 2) * Sizeof.ptr))
    ELSE [heap |-> h, vec |-> v]

\* the JSON_ASSERT on an empty vector is the caller's fatal path
json_vec_free_one(h, v) ==
    IF v.cap > v.min_cap /\ v.size < v.cap \div 4
    THEN json_vec_resized(v, v.cap \div 2,
             json_fat_realloc(h, v.data, (v.cap \div 2) * Sizeof.ptr))
    ELSE [heap |-> h, vec |-> v]

json_vec_push(h, v, item) ==
    [json_vec_alloc_one(h, v) EXCEPT !.vec.items = Append(@, item),
                                     !.vec.size = @ + 1]

\* only called on a vector that holds an item
json_vec_pop(h, v) ==
    [item |-> v.items[v.size]]
        @@ [json_vec_free_one(h, v) EXCEPT
               !.vec.items = SubSeq(v.items, 1, v.size - 1),
               !.vec.size = v.size - 1]

json_vec_peek(v) == v.items[v.size]

-----------------------------------------------------------------------------
(* Hash: 64-bit FNV-1a, kept as four 16-bit limbs, lowest first            *)

LimbBase == 256 * 256

RECURSIVE XorBits(_, _, _)
XorBits(x, y, n) ==
    IF n = 0 THEN 0
    ELSE (((x % 2) + (y % 2)) % 2) + 2 * XorBits(x \div 2, y \div 2, n - 1)

\* 0xcbf29ce484222325
JSON_FNV_BASIS == <<8997, 33826, 40164, 52210>>

HashZero == <<0, 0, 0, 0>>

\* hash ^ ch for a byte below 0x80 (a char that is not negative)
HashXor(hash, ch) ==
    [hash EXCEPT ![1] = (hash[1] \div 256) * 256 + XorBits(hash[1] % 256, ch, 8)]

\* hash * 0x00000100000001b3 modulo 2^64: hash * 435 + (hash << 40)
HashMulPrime(hash) ==
    LET t0 == hash[1] * 435
        t1 == hash[2] * 435 + t0 \div LimbBase
        t2 == hash[3] * 435 + t1 \div LimbBase + (hash[1] % 256) * 256
        t3 == hash[4] * 435 + t2 \div LimbBase
                + hash[1] \div 256 + (hash[2] % 256) * 256
    IN <<t0 % LimbBase, t1 % LimbBase, t2 % LimbBase, t3 % LimbBase>>

RECURSIVE json_hash_from(_, _, _)
json_hash_from(str, k, hash) ==
    IF k > Len(str) THEN hash
    ELSE json_hash_from(str, k + 1, HashMulPrime(HashXor(hash, str[k])))

json_hash_str(str) == json_hash_from(str, 1, JSON_FNV_BASIS)

\* hash % cap, for a capacity below 2^15
HashMod(hash, cap) ==
    LET r3 == hash[4] % cap
        r2 == (r3 * LimbBase + hash[3]) % cap
        r1 == (r2 * LimbBase + hash[2]) % cap
    IN (r1 * LimbBase + hash[1]) % cap

-----------------------------------------------------------------------------
(* Hash map                                                                *)

\* a cleared node: only hash is written by json_hnodes_alloc
EmptyNode == [object |-> NullObject, hash |-> HashZero, index |-> 0, steps |-> 0]

json_hnodes_alloc(h, num_nodes) ==
    LET a == json_fat_alloc(h, num_nodes * Sizeof.json_hnode_t)
    IN [heap |-> a.heap, ptr |-> a.ptr, slots |-> [k \in 1..num_nodes |-> EmptyNode]]

\* the map around its order vector v (what json_vec_make made) and its nodes
json_hmap_on(v, init_cap) ==
    LET n == json_hnodes_alloc(v.heap, init_cap)
    IN [heap |-> n.heap,
        hmap |-> [vec |-> v.vec, nodes |-> n.ptr, slots |-> n.slots,
                  size |-> 0, cap |-> init_cap, min_cap |-> init_cap]]

json_hmap_make(h, init_cap) == json_hmap_on(json_vec_make(h, init_cap), init_cap)

RECURSIVE json_hmap_probe(_, _, _, _, _)
RECURSIVE json_hmap_reinsert(_, _, _, _)
RECURSIVE json_hmap_reinserted(_, _, _)

\* n is the new node array; json_fat_free(old_nodes) after the loop
json_hmap_refill(m, new_cap, n) ==
    [json_hmap_reinsert(n.heap,
         [m EXCEPT !.cap = new_cap, !.nodes = n.ptr, !.slots = n.slots, !.size = 0],
         m.slots, 1)
       EXCEPT !.heap = json_fat_free(@, m.nodes)]

json_hmap_rehash(h, m, new_cap) ==
    json_hmap_refill(m, new_cap, json_hnodes_alloc(h, new_cap))

\* json_hmap_alloc_slot without its rehash
json_hmap_alloc_slot_no_grow(h, m) ==
    [heap |-> h, hmap |-> [m EXCEPT !.size = m.size + 1], hang |-> FALSE]

json_hmap_alloc_slot(h, m) ==
    IF m.size + 1 > m.cap \div 2
    THEN json_hmap_rehash(h, [m EXCEPT !.size = m.size + 1], m.cap * 2)
    ELSE [heap |-> h, hmap |-> [m EXCEPT !.size = m.size + 1], hang |-> FALSE]

\* the probe loop of json_hmap_put_node; tried counts the slots looked at, a
\* loop that has looked at every slot never ends
json_hmap_probe(h, m, node, index, tried) ==
    IF tried = m.cap THEN [heap |-> h, hmap |-> m, hang |-> TRUE]
    ELSE IF m.slots[index + 1].hash = HashZero
    THEN json_hmap_alloc_slot(h, [m EXCEPT !.slots[index + 1] = node])
    ELSE IF m.slots[index + 1].hash = node.hash
    THEN [heap |-> h, hmap |-> [m EXCEPT !.slots[index + 1].object = node.object],
          hang |-> FALSE]
    ELSE json_hmap_probe(h, m, [node EXCEPT !.steps = node.steps + 1],
                         (index + 1) % m.cap, tried + 1)

json_hmap_put_node(h, m, node) == json_hmap_probe(h, m, node, node.index, 0)

\* the loop of json_hmap_rehash over the old node array, from slot k on
json_hmap_reinsert(h, m, old_slots, k) ==
    IF k > Len(old_slots) THEN [heap |-> h, hmap |-> m, hang |-> FALSE]
    ELSE IF old_slots[k].hash = HashZero
    THEN json_hmap_reinsert(h, m, old_slots, k + 1)
    ELSE json_hmap_reinserted(old_slots, k,
             json_hmap_put_node(h, m,
                 [old_slots[k] EXCEPT !.index = HashMod(old_slots[k].hash, m.cap),
                                      !.steps = 0]))

\* p is the map after old node k went in
json_hmap_reinserted(old_slots, k, p) ==
    IF p.hang THEN p ELSE json_hmap_reinsert(p.heap, p.hmap, old_slots, k + 1)

RECURSIVE json_hmap_find(_, _, _, _)
json_hmap_find(m, hash, index, tried) ==
    IF tried = m.cap THEN [hang |-> TRUE, slot |-> 0]
    ELSE IF m.slots[index + 1].hash = HashZero THEN [hang |-> FALSE, slot |-> 0]
    ELSE IF m.slots[index + 1].hash = hash THEN [hang |-> FALSE, slot |-> index + 1]
    ELSE json_hmap_find(m, hash, (index + 1) % m.cap, tried + 1)

\* the slot (counted from 1) of the node found, 0 for the NULL result
json_hmap_get_node(m, hash) == json_hmap_find(m, hash, HashMod(hash, m.cap), 0)

\* v is the order vector with the key pushed; uninit is what the stack slot
\* of node.steps held
json_hmap_put_key(v, m, key, object, uninit) ==
    json_hmap_put_node(v.heap, [m EXCEPT !.vec = v.vec],
        [object |-> object, hash |-> json_hash_str(key),
         index |-> HashMod(json_hash_str(key), m.cap), steps |-> uninit])

json_hmap_put(h, m, key, object, uninit) ==
    json_hmap_put_key(json_vec_push(h, m.vec, key), m, key, object, uninit)

json_hmap_get(m, key) ==
    LET f == json_hmap_get_node(m, json_hash_str(key))
    IN IF f.slot = 0 THEN NullObject ELSE m.slots[f.slot].object

-----------------------------------------------------------------------------
(* Arena                                                                   *)

\* JSON_PAGE_SIZE is a compile-time knob (65536 unless set); it is set small
\* here so that the documents checked span several pages
JSON_PAGE_SIZE == 128

JSON_INIT_PAGE_CAP == 8

\* pages[index] = p; dir holds the entries written so far, oob records a
\* write past the end of the directory
json_pages_store(j, index, p) ==
    [j EXCEPT !.dir = Append(j.dir, p), !.oob = j.oob \/ index >= j.page_cap]

json_make(h) ==
    LET d == json_fat_alloc(h, JSON_INIT_PAGE_CAP * Sizeof.ptr)
        p == Malloc(d.heap, JSON_PAGE_SIZE)
    IN [heap |-> p.heap,
        json |-> [root |-> NullObject, pages |-> d.ptr, dir |-> <<p.ptr>>,
                  cur_page |-> 0, page_cap |-> JSON_INIT_PAGE_CAP, used |-> 0,
                  oob |-> FALSE]]

\* the tail of json_page_alloc: hand out page space
json_page_bump(h, j, size) ==
    [heap |-> h, json |-> [j EXCEPT !.used = j.used + size],
     ptr |-> <<j.dir[j.cur_page + 1], j.used>>]

\* json->pages[++json->cur_page] = p
json_page_next(j, p) ==
    [heap |-> p.heap,
     json |-> json_pages_store([j EXCEPT !.cur_page = j.cur_page + 1],
                               j.cur_page + 1, p.ptr)]

\* own has a page of its own for a big request; then a fresh current page
json_page_big(own) ==
    LET new == json_page_next(own.json, Malloc(own.heap, JSON_PAGE_SIZE))
    IN [heap |-> new.heap, json |-> [new.json EXCEPT !.used = 0],
        ptr |-> <<own.json.dir[own.json.cur_page + 1], 0>>]

\* the directory doubled onto the block d
json_pages_grown(j, d) ==
    [heap |-> d.heap,
     json |-> [j EXCEPT !.page_cap = j.page_cap * 2, !.pages = d.ptr]]

\* grown is the handle after the directory had its chance to grow; a fresh
\* current page, the request served from its start
json_page_new(grown, size) ==
    LET new == json_page_next(grown.json, Malloc(grown.heap, JSON_PAGE_SIZE))
    IN json_page_bump(new.heap, [new.json EXCEPT !.used = 0], size)

json_page_alloc(h, j, size) ==
    IF j.used + size > JSON_PAGE_SIZE
    THEN IF size >= JSON_PAGE_SIZE
         THEN json_page_big(json_page_next(j, Malloc(h, size)))
         ELSE json_page_new(
                  IF j.cur_page + 1 = j.page_cap
                  THEN json_pages_grown(j,
                           json_fat_realloc(h, j.pages, (j.page_cap * 2) * Sizeof.ptr))
                  ELSE [heap |-> h, json |-> j],
                  size)
    ELSE json_page_bump(h, j, size)

-----------------------------------------------------------------------------
(* Parser.  The context c holds ctx->index, the heap and the json_t; after *)
(* JSON_CTX_ERROR (which exits) c.err is set, c.index is ctx->index as the *)
(* report sees it and c.bad is the index of the byte the failed test read. *)

\* escape letter, byte it stands for
JSON_ESCAPE_CHARACTERS_X ==
    <<<<CH.dq, CH.dq>>, <<CH.bsl, CH.bsl>>, <<CH.slash, CH.slash>>,
      <<CH.b, CH.bs>>, <<CH.f, CH.ff>>, <<CH.n, CH.lf>>, <<CH.r, CH.cr>>,
      <<CH.t, CH.tab>>>>

json_is_whitespace(ch) == ch \in {32, 10, 13, 9}

json_is_digit(ch) == ch >= CH.d0 /\ ch <= CH.d9

\* uninit is what the stack slot json_hmap_put leaves unset holds
NewCtx(h, j, uninit) ==
    [index |-> 0, err |-> FALSE, bad |-> 0, msg |-> "", hang |-> FALSE,
     heap |-> h, json |-> j, uninit |-> uninit]

\* JSON_CTX_ERROR with the cursor where it stands
CtxError(c, bad, msg) == [c EXCEPT !.err = TRUE, !.bad = bad, !.msg = msg]

RECURSIVE json_skip(_, _)
json_skip(t, i) == IF json_is_whitespace(At(t, i)) THEN json_skip(t, i + 1) ELSE i

json_next_token(t, c) == [c EXCEPT !.index = json_skip(t, c.index)]

\* the first k with text[index + k] # token[k], Len(token) when there is none
RECURSIVE json_token_diff(_, _, _, _)
json_token_diff(t, index, token, k) ==
    IF k = Len(token) THEN k
    ELSE IF At(t, index + k) # token[k + 1] THEN k
    ELSE json_token_diff(t, index, token, k + 1)

json_token_equals(t, c, token) == json_token_diff(t, c.index, token, 0) = Len(token)

json_expect_token(t, c, token) ==
    IF ~json_token_equals(t, c, token)
    THEN CtxError(c, c.index + json_token_diff(t, c.index, token, 0), "unknown token")
    ELSE [c EXCEPT !.index = c.index + Len(token)]

\* the byte the escape letter stands for, <<>> when X has no such letter
EscapeIn(X, letter) ==
    IF \E k \in DOMAIN X : X[k][1] = letter
    THEN <<X[CHOOSE k \in DOMAIN X : X[k][1] = letter][2]>>
    ELSE <<>>

EscapeOf(letter) == EscapeIn(JSON_ESCAPE_CHARACTERS_X, letter)

\* the switch of json_expect_str_char on the byte after the backslash
json_expect_escape(t, c, esc) ==
    IF esc # <<>>
    THEN [c |-> [c EXCEPT !.index = c.index + 1], ch |-> esc[1]]
    ELSE IF At(t, c.index) = CH.u
    THEN [c |-> CtxError(c, c.index, "unicode escape"), ch |-> 0]
    ELSE [c |-> CtxError(c, c.index, "unknown character escape"), ch |-> 0]

json_expect_str_char(t, c) ==
    IF At(t, c.index) = CH.bsl
    THEN json_expect_escape(t, [c EXCEPT !.index = c.index + 1],
                            EscapeOf(At(t, c.index + 1)))
    ELSE [c |-> [c EXCEPT !.index = c.index + 1], ch |-> At(t, c.index)]

RECURSIVE json_string_count(_, _, _)
RECURSIVE json_string_counted(_, _, _)

\* first loop of json_expect_string: verify and count
json_string_count(t, c, length) ==
    IF At(t, c.index) = CH.dq THEN [c |-> c, length |-> length]
    ELSE IF At(t, c.index) \in {CH.lf, CH.nul}
    THEN [c |-> CtxError(c, c.index, "string ended unexpectedly"), length |-> length]
    ELSE json_string_counted(t, json_expect_str_char(t, c), length)

\* r is what json_expect_str_char made of the character
json_string_counted(t, r, length) ==
    IF r.c.err THEN [c |-> r.c, length |-> length]
    ELSE json_string_count(t, r.c, length + 1)

\* second loop of json_expect_string: read length characters
RECURSIVE json_string_read(_, _, _, _)
json_string_read(t, c, length, str) ==
    IF Len(str) = length THEN [c |-> c, str |-> str]
    ELSE LET r == json_expect_str_char(t, c)
         IN json_string_read(t, r.c, length, Append(str, r.ch))

\* the page space a is the string's, the cursor goes back to its start and
\* in the end over the closing quote
json_string_fill(t, c, start_index, length, a) ==
    [json_string_read(t,
         [c EXCEPT !.index = start_index, !.heap = a.heap, !.json = a.json],
         length, <<>>)
       EXCEPT !.c.index = @ + 1]

\* n is what the counting loop ended with
json_string_alloc(t, start_index, n) ==
    IF n.c.err THEN [c |-> n.c, str |-> <<>>]
    ELSE json_string_fill(t, n.c, start_index, n.length,
             json_page_alloc(n.c.heap, n.c.json, (n.length + 1) * Sizeof.char))

json_expect_string(t, c) ==
    IF At(t, c.index) # CH.dq
    THEN [c |-> CtxError([c EXCEPT !.index = c.index + 1], c.index,
                         "unknown token, expected string"),
          str |-> <<>>]
    ELSE json_string_alloc(t, c.index + 1,
             json_string_count(t, [c EXCEPT !.index = c.index + 1], 0))

-----------------------------------------------------------------------------
(* double.  A finite double is the decimal (-1)^neg * m * 10^e with m not  *)
(* a multiple of 10 (m = 0, e = 0 for zero): the parser's multiply-add     *)
(* steps are exact, and a result past the largest double is infinite, one  *)
(* under half the smallest is zero.  Mantissas stay below 10^9.            *)

RECURSIVE Digits(_)
Digits(m) == IF m < 10 THEN 1 ELSE 1 + Digits(m \div 10)

RECURSIVE Pow10(_)
Pow10(k) == IF k = 0 THEN 1 ELSE 10 * Pow10(k - 1)

RECURSIVE DblCanon(_, _)
DblCanon(m, e) ==
    IF m = 0 THEN [m |-> 0, e |-> 0]
    ELSE IF m % 10 = 0 THEN DblCanon(m \div 10, e + 1)
    ELSE [m |-> m, e |-> e]

\* a magnitude of mag decimal places whose first nine digits are lead
DblRange(neg, k, mag, lead) ==
    IF mag > 308 \/ (mag = 308 /\ lead > 179769313)
    THEN [inf |-> TRUE, neg |-> neg, m |-> 0, e |-> 0]
    ELSE IF mag < -324 \/ (mag = -324 /\ lead <= 247032822)
    THEN [inf |-> FALSE, neg |-> neg, m |-> 0, e |-> 0]
    ELSE [inf |-> FALSE, neg |-> neg, m |-> k.m, e |-> k.e]

\* the double nearest to (-1)^neg * m * 10^e: DBL_MAX is 1.79769313...e308,
\* half the least subnormal is 2.47032822...e-324
Dbl(neg, m, e) ==
    LET k == DblCanon(m, e)
    IN IF k.m = 0 THEN [inf |-> FALSE, neg |-> neg, m |-> 0, e |-> 0]
       ELSE DblRange(neg, k, Digits(k.m) + k.e - 1, k.m * Pow10(9 - Digits(k.m)))

DblZero == [inf |-> FALSE, neg |-> FALSE, m |-> 0, e |-> 0]

\* x * 10.0 and x * 0.1
DblTimes10(x) == IF x.inf THEN x ELSE Dbl(x.neg, x.m, x.e + 1)

DblTimesTenth(x) == IF x.inf THEN x ELSE Dbl(x.neg, x.m, x.e - 1)

\* x + y of two doubles that are not negative
DblPlus(x, y) ==
    IF x.inf \/ y.inf THEN [inf |-> TRUE, neg |-> FALSE, m |-> 0, e |-> 0]
    ELSE IF x.m = 0 THEN y
    ELSE IF y.m = 0 THEN x
    ELSE LET e0 == IF x.e < y.e THEN x.e ELSE y.e
         IN Dbl(FALSE, x.m * Pow10(x.e - e0) + y.m * Pow10(y.e - e0), e0)

DblNegate(x) == [x EXCEPT !.neg = ~x.neg]

\* integral component: num *= 10.0; num += digit
RECURSIVE json_number_int(_, _, _)
json_number_int(t, i, num) ==
    IF json_is_digit(At(t, i))
    THEN json_number_int(t, i + 1,
             DblPlus(DblTimes10(num), Dbl(FALSE, At(t, i) - CH.d0, 0)))
    ELSE [index |-> i, num |-> num]

\* fractional component: fract += digit; fract *= 0.1
RECURSIVE json_number_fract(_, _, _)
json_number_fract(t, i, fract) ==
    IF json_is_digit(At(t, i))
    THEN json_number_fract(t, i + 1,
             DblTimesTenth(DblPlus(fract, Dbl(FALSE, At(t, i) - CH.d0, 0))))
    ELSE [index |-> i, num |-> fract]

\* exponent *= 10; exponent += digit
RECURSIVE json_number_exp(_, _, _)
json_number_exp(t, i, exponent) ==
    IF json_is_digit(At(t, i))
    THEN json_number_exp(t, i + 1, exponent * 10 + (At(t, i) - CH.d0))
    ELSE [index |-> i, exponent |-> exponent]

\* while (exponent--) num *= 0.1, or num *= 10.0: the exponent steps, one
\* after the other (the first half of them, then the rest; an infinite
\* num stays as it is under either step)
RECURSIVE json_number_scale(_, _, _)
json_number_scale(num, exponent, neg_exp) ==
    IF exponent = 0 THEN num
    ELSE IF exponent = 1
    THEN IF neg_exp THEN DblTimesTenth(num) ELSE DblTimes10(num)
    ELSE LET half == json_number_scale(num, exponent \div 2, neg_exp)
         IN IF half.inf THEN half
            ELSE json_number_scale(half, exponent - exponent \div 2, neg_exp)

\* the exponent's digits start at i2, after the e at i1 and a sign if any
json_number_exponent(t, c, num, i1, i2) ==
    IF ~json_is_digit(At(t, i2))
    THEN [c |-> CtxError([c EXCEPT !.index = i2], i2, "expected digit"),
          num |-> DblZero]
    ELSE LET ex == json_number_exp(t, i2, 0)
         IN [c |-> [c EXCEPT !.index = ex.index],
             num |-> json_number_scale(num, ex.exponent, At(t, i1 + 1) = CH.minus)]

\* exponential component, the number so far ends before i1
json_number_tail(t, c, num, i1) ==
    IF At(t, i1) \notin {CH.e, CH.E}
    THEN [c |-> [c EXCEPT !.index = i1], num |-> num]
    ELSE json_number_exponent(t, c, num, i1,
             IF At(t, i1 + 1) \in {CH.plus, CH.minus} THEN i1 + 2 ELSE i1 + 1)

\* num += fract; if (negative) num = -num
json_number_sum(t, c, negative, num, fr) ==
    json_number_tail(t, c,
        IF negative THEN DblNegate(DblPlus(num, fr.num))
        ELSE DblPlus(num, fr.num),
        fr.index)

\* fractional component, int is what the integral digit loop ended with
json_number_dot(t, c, negative, int) ==
    IF At(t, int.index) # CH.dot
    THEN json_number_tail(t, c,
             IF negative THEN DblNegate(int.num) ELSE int.num, int.index)
    ELSE IF ~json_is_digit(At(t, int.index + 1))
    THEN [c |-> CtxError([c EXCEPT !.index = int.index + 1], int.index + 1,
                         "expected digit"),
          num |-> DblZero]
    ELSE json_number_sum(t, c, negative, int.num,
                         json_number_fract(t, int.index + 1, DblZero))

json_expect_number(t, c) ==
    LET negative == At(t, c.index) = CH.minus
        i0 == IF negative THEN c.index + 1 ELSE c.index
    IN IF ~json_is_digit(At(t, i0))
       THEN [c |-> CtxError([c EXCEPT !.index = i0], i0, "expected digit"),
             num |-> DblZero]
       ELSE json_number_dot(t, c, negative, json_number_int(t, i0, DblZero))

-----------------------------------------------------------------------------
(* Values                                                                  *)

Value(type, data) == [type |-> type, data |-> data]

\* the context once the page space a is handed out
CtxOn(c, a) == [c EXCEPT !.heap = a.heap, !.json = a.json]

\* page space for one struct
CtxAlloc(c, size) == CtxOn(c, json_page_alloc(c.heap, c.json, size))

\* object->type = type once the expect call returned r, its data in r[field]
Typed(type, r, field) == [c |-> r.c, val |-> Value(type, r[field])]

RECURSIVE json_expect_value(_, _)
RECURSIVE json_expect_array(_, _)
RECURSIVE json_array_open(_, _, _)
RECURSIVE json_array_loop(_, _, _)
RECURSIVE json_array_child(_, _, _)
RECURSIVE json_array_iterate(_, _, _)
RECURSIVE json_expect_obj(_, _)
RECURSIVE json_obj_open(_, _, _)
RECURSIVE json_obj_loop(_, _, _)
RECURSIVE json_obj_key(_, _, _)
RECURSIVE json_obj_child(_, _, _, _)
RECURSIVE json_obj_put(_, _, _)
RECURSIVE json_obj_iterate(_, _, _)

\* the while (1) of json_expect_array: page space for the child, its value
json_array_loop(t, c, v) ==
    json_array_child(t, v,
        json_expect_value(t, json_next_token(t, CtxAlloc(c, Sizeof.json_object_t))))

\* json_vec_push(vec, child); json_next_token(ctx)
json_array_child(t, v, child) ==
    IF child.c.err \/ child.c.hang THEN [c |-> child.c, vec |-> v]
    ELSE LET pushed == json_vec_push(child.c.heap, v, child.val)
         IN json_array_iterate(t,
                json_next_token(t, [child.c EXCEPT !.heap = pushed.heap]),
                pushed.vec)

\* ']' ends the loop, anything else has to be the comma
json_array_iterate(t, c, v) ==
    IF At(t, c.index) = CH.rbrack
    THEN [c |-> [c EXCEPT !.index = c.index + 1], vec |-> v]
    ELSE LET c3 == json_expect_token(t, c, <<CH.comma>>)
         IN IF c3.err THEN [c |-> c3, vec |-> v] ELSE json_array_loop(t, c3, v)

\* made is the vector json_vec_make set up in the page space; skip '['
json_array_open(t, c, made) ==
    Typed("JSON_ARRAY",
          json_array_loop(t, [c EXCEPT !.heap = made.heap, !.index = c.index + 1],
                          made.vec),
          "vec")

json_expect_array(t, c) ==
    LET c1 == CtxAlloc(c, Sizeof.json_vec_t)
    IN json_array_open(t, c1, json_vec_make(c1.heap, InitCap))

\* the while (1) of json_expect_obj: page space for the child, the key
json_obj_loop(t, c, m) ==
    json_obj_key(t, m,
        json_expect_string(t, json_next_token(t, CtxAlloc(c, Sizeof.json_object_t))))

json_obj_key(t, m, key) ==
    IF key.c.err THEN [c |-> key.c, hmap |-> m]
    ELSE LET c2 == json_expect_token(t, json_next_token(t, key.c), <<CH.colon>>)
         IN IF c2.err THEN [c |-> c2, hmap |-> m]
            ELSE json_obj_child(t, m, key.str,
                                json_expect_value(t, json_next_token(t, c2)))

\* json_hmap_put(hmap, key, child)
json_obj_child(t, m, key, child) ==
    IF child.c.err \/ child.c.hang THEN [c |-> child.c, hmap |-> m]
    ELSE json_obj_put(t, child.c,
             json_hmap_put(child.c.heap, m, key, child.val, child.c.uninit))

json_obj_put(t, c, put) ==
    IF put.hang THEN [c |-> [c EXCEPT !.heap = put.heap, !.hang = TRUE],
                      hmap |-> put.hmap]
    ELSE json_obj_iterate(t, json_next_token(t, [c EXCEPT !.heap = put.heap]),
                          put.hmap)

\* '}' ends the loop, anything else has to be the comma
json_obj_iterate(t, c, m) ==
    IF At(t, c.index) = CH.rbrace
    THEN [c |-> [c EXCEPT !.index = c.index + 1], hmap |-> m]
    ELSE LET c4 == json_expect_token(t, c, <<CH.comma>>)
         IN IF c4.err THEN [c |-> c4, hmap |-> m] ELSE json_obj_loop(t, c4, m)

\* made is the map json_hmap_make set up in the page space; skip '{'
json_obj_open(t, c, made) ==
    Typed("JSON_OBJECT",
          json_obj_loop(t, [c EXCEPT !.heap = made.heap, !.index = c.index + 1],
                        made.hmap),
          "hmap")

json_expect_obj(t, c) ==
    LET c1 == CtxAlloc(c, Sizeof.json_hmap_t)
    IN json_obj_open(t, c1, json_hmap_make(c1.heap, InitCap))

json_expect_value(t, c) ==
    CASE At(t, c.index) = CH.lbrace -> json_expect_obj(t, c)
      [] At(t, c.index) = CH.lbrack -> json_expect_array(t, c)
      [] At(t, c.index) = CH.dq -> Typed("JSON_STRING", json_expect_string(t, c), "str")
      [] At(t, c.index) = CH.t ->
           [c |-> json_expect_token(t, c, <<CH.t, CH.r, CH.u, CH.e>>),
            val |-> Value("JSON_TRUE", NULL)]
      [] At(t, c.index) = CH.f ->
           [c |-> json_expect_token(t, c, <<CH.f, CH.a, CH.l, CH.s, CH.e>>),
            val |-> Value("JSON_FALSE", NULL)]
      [] At(t, c.index) = CH.n ->
           [c |-> json_expect_token(t, c, <<CH.n, CH.u, CH.l, CH.l>>),
            val |-> Value("JSON_NULL", NULL)]
      [] OTHER ->
           IF json_is_digit(At(t, c.index)) \/ At(t, c.index) = CH.minus
           THEN Typed("JSON_NUMBER", json_expect_number(t, c), "num")
           ELSE [c |-> CtxError(c, c.index, "unknown token, expected value"),
                 val |-> NullObject]

\* json_parse without the json_expect_token(&ctx, "", 1) after the root
json_root_end_unchecked(t, r) ==
    IF r.c.err \/ r.c.hang THEN r.c ELSE [r.c EXCEPT !.json.root = r.val]

\* json->root = the value r; the NUL after it
json_root_end(t, r) ==
    IF r.c.err \/ r.c.hang THEN r.c
    ELSE [json_expect_token(t, json_next_token(t, r.c), <<CH.nul>>)
             EXCEPT !.json.root = r.val]

\* the root case of json_parse for '{' and '[': c1 has the page space of root
json_root_value(t, c1) ==
    json_root_end(t, IF At(t, c1.index) = CH.lbrace THEN json_expect_obj(t, c1)
                     ELSE json_expect_array(t, c1))

json_parse_root(t, c) == json_root_value(t, CtxAlloc(c, Sizeof.json_object_t))

\* the context json_parse ends with; c.json is the handle as it leaves it
json_parse(t, h, j, uninit) ==
    LET c == json_next_token(t, NewCtx(h, j, uninit))
    IN IF At(t, c.index) \in {CH.lbrace, CH.lbrack} THEN json_parse_root(t, c)
       ELSE IF At(t, c.index) = CH.nul THEN [c EXCEPT !.json.root = NullObject]
       ELSE CtxError(c, c.index, "invalid json root")

json_load(t, h, uninit) ==
    LET made == json_make(h)
    IN json_parse(t, made.heap, made.json, uninit)

-----------------------------------------------------------------------------
(* The report of JSON_CTX_ERROR                                            *)

\* the for loop: line number and line index from the bytes before index
RECURSIVE json_error_line(_, _, _, _, _)
json_error_line(t, index, i, line, line_index) ==
    IF i >= index THEN [line |-> line, line_index |-> line_index]
    ELSE IF At(t, i) = CH.lf
    THEN json_error_line(t, index, i + 1, line + 1, i + 1)
    ELSE json_error_line(t, index, i + 1, line, line_index)

\* the while loop: line length
RECURSIVE json_error_length(_, _, _)
json_error_length(t, i, line_length) ==
    IF At(t, i) # CH.lf /\ At(t, i) # CH.nul
    THEN json_error_length(t, i + 1, line_length + 1)
    ELSE line_length

\* the two printf calls: the number, the line, the caret's column
json_error_shown(t, index, at, line_length) ==
    [line |-> at.line,
     shown |-> [k \in 1..line_length |-> At(t, at.line_index + k - 1)],
     caret |-> index - at.line_index]

json_contextual_error(t, index) ==
    LET at == json_error_line(t, index, 0, 1, 0)
    IN json_error_shown(t, index, at, json_error_length(t, at.line_index, 0))

-----------------------------------------------------------------------------
(* Unload                                                                  *)

RECURSIVE json_free_array(_, _)
RECURSIVE json_free_object(_, _)
RECURSIVE json_free_items(_, _, _)
RECURSIVE json_free_nodes(_, _, _)

json_free_child(h, child) ==
    IF child.type = "JSON_ARRAY" THEN json_free_array(h, child)
    ELSE IF child.type = "JSON_OBJECT" THEN json_free_object(h, child)
    ELSE h

json_free_items(h, items, i) ==
    IF i > Len(items) THEN h
    ELSE json_free_items(json_free_child(h, items[i]), items, i + 1)

json_free_array(h, object) ==
    json_fat_free(json_free_items(h, object.data.items, 1), object.data.data)

json_free_nodes(h, slots, i) ==
    IF i > Len(slots) THEN h
    ELSE IF slots[i].hash # HashZero
    THEN json_free_nodes(json_free_child(h, slots[i].object), slots, i + 1)
    ELSE json_free_nodes(h, slots, i + 1)

json_free_object(h, object) ==
    json_fat_free(
        json_fat_free(json_free_nodes(h, object.data.slots, 1), object.data.vec.data),
        object.data.nodes)

RECURSIVE json_free_pages(_, _, _)
json_free_pages(h, j, i) ==
    IF i > j.cur_page THEN h
    ELSE json_free_pages(Free(h, j.dir[i + 1]), j, i + 1)

json_unload(h, j) ==
    LET h1 == IF j.root # NullObject
              THEN IF j.root.type = "JSON_OBJECT" THEN json_free_object(h, j.root)
                   ELSE json_free_array(h, j.root)
              ELSE h
    IN json_fat_free(json_free_pages(h1, j, 0), j.pages)

-----------------------------------------------------------------------------
(* Pretty printer.  Each function gives the bytes written and whether it   *)
(* dereferenced a NULL json_object_t on the way (fault).                   *)

RECURSIVE IntText(_)
IntText(m) ==
    IF m < 10 THEN <<CH.d0 + m>>
    ELSE Append(IntText(m \div 10), CH.d0 + (m % 10))

Zeros(n) == [k \in 1..n |-> CH.d0]

\* a decimal digit string plus one
RECURSIVE IncText(_)
IncText(d) ==
    IF d = <<>> THEN <<CH.d0 + 1>>
    ELSE IF d[Len(d)] = CH.d9
    THEN Append(IncText(SubSeq(d, 1, Len(d) - 1)), CH.d0)
    ELSE Append(SubSeq(d, 1, Len(d) - 1), d[Len(d)] + 1)

SignText(x) == IF x.neg THEN <<CH.minus>> ELSE <<>>

\* (long)x == x: no fractional part, and inside the range of long (below
\* 2^63 = 9223372036...); the cast of any other double matches no long
DblIsLong(x) ==
    /\ ~x.inf
    /\ x.e >= 0
    /\ \/ x.m = 0
       \/ Digits(x.m) + x.e <= 18
       \/ Digits(x.m) + x.e = 19 /\ x.m * Pow10(9 - Digits(x.m)) <= 922337203

\* "%ld"
DblLongText(x) ==
    IF x.m = 0 THEN <<CH.d0>> ELSE SignText(x) \o IntText(x.m) \o Zeros(x.e)

\* the digits with the point six places from the end
DblPoint(sign, digits) ==
    sign \o SubSeq(digits, 1, Len(digits) - 6) \o <<CH.dot>>
         \o SubSeq(digits, Len(digits) - 5, Len(digits))

\* whole and frac (k digits) cut to six decimals; the seventh decides the
\* rounding (a tie counts up)
DblCut(whole, frac, k) ==
    IF k <= 6 THEN whole \o frac \o Zeros(6 - k)
    ELSE IF frac[7] >= CH.d0 + 5 THEN IncText(whole \o SubSeq(frac, 1, 6))
    ELSE whole \o SubSeq(frac, 1, 6)

\* the digits d with k of them after the point
DblSplit(sign, d, k) ==
    DblPoint(sign,
        DblCut(IF k >= Len(d) THEN <<CH.d0>> ELSE SubSeq(d, 1, Len(d) - k),
               IF k >= Len(d) THEN Zeros(k - Len(d)) \o d
               ELSE SubSeq(d, Len(d) - k + 1, Len(d)),
               k))

\* "%lf"
DblFixedText(x) ==
    IF x.inf THEN SignText(x) \o <<CH.i, CH.n, CH.f>>
    ELSE IF x.e >= 0
    THEN SignText(x) \o IntText(x.m) \o Zeros(x.e) \o <<CH.dot>> \o Zeros(6)
    ELSE DblSplit(SignText(x), IntText(x.m), 0 - x.e)

json_fprint_number(x) == IF DblIsLong(x) THEN DblLongText(x) ELSE DblFixedText(x)

json_fprint_level(level) == [k \in 1..(level * 4) |-> CH.sp]

\* the backslash and the letter X has for the byte, the byte itself otherwise
UnescapeIn(X, ch) ==
    IF \E k \in DOMAIN X : X[k][2] = ch
    THEN <<CH.bsl, X[CHOOSE k \in DOMAIN X : X[k][2] = ch][1]>>
    ELSE <<ch>>

UnescapeOf(ch) == UnescapeIn(JSON_ESCAPE_CHARACTERS_X, ch)

RECURSIVE json_fprint_chars(_, _)
json_fprint_chars(str, k) ==
    IF k > Len(str) THEN <<>>
    ELSE UnescapeOf(str[k]) \o json_fprint_chars(str, k + 1)

json_fprint_string(str) == <<CH.dq>> \o json_fprint_chars(str, 1) \o <<CH.dq>>

Wrote(bytes) == [out |-> bytes, fault |-> FALSE]

\* what was written before rest and what rest wrote
WroteThen(head, rest) == [out |-> head \o rest.out, fault |-> rest.fault]

RECURSIVE json_fprint_value(_, _)
RECURSIVE json_fprint_array(_, _)
RECURSIVE json_fprint_array_end(_, _)
RECURSIVE json_fprint_items(_, _, _)
RECURSIVE json_fprint_item(_, _, _, _)
RECURSIVE json_fprint_obj(_, _)
RECURSIVE json_fprint_obj_end(_, _)
RECURSIVE json_fprint_members(_, _, _)
RECURSIVE json_fprint_member(_, _, _, _)

\* the for loop of json_fprint_array from item i (counted from 1) on
json_fprint_items(v, level, i) ==
    IF i > v.size THEN Wrote(<<>>)
    ELSE json_fprint_item(v, level, i,
             WroteThen((IF i > 1 THEN <<CH.comma, CH.lf>> ELSE <<>>) \o json_fprint_level(level),
                       json_fprint_value(v.items[i], level)))

\* one is what item i wrote
json_fprint_item(v, level, i, one) ==
    IF one.fault THEN one
    ELSE WroteThen(one.out, json_fprint_items(v, level, i + 1))

json_fprint_array_end(body, level) ==
    IF body.fault THEN body
    ELSE Wrote(body.out \o <<CH.lf>> \o json_fprint_level(level) \o <<CH.rbrack>>)

json_fprint_array(object, level) ==
    json_fprint_array_end(
        WroteThen(<<CH.lbrack, CH.lf>>, json_fprint_items(object.data, level + 1, 1)),
        level)

\* the for loop of json_fprint_obj over the order vector
json_fprint_members(m, level, i) ==
    IF i > m.vec.size THEN Wrote(<<>>)
    ELSE json_fprint_member(m, level, i,
             WroteThen((IF i > 1 THEN <<CH.comma, CH.lf>> ELSE <<>>) \o json_fprint_level(level)
                           \o json_fprint_string(m.vec.items[i])
                           \o <<CH.colon, CH.sp>>,
                       json_fprint_value(json_hmap_get(m, m.vec.items[i]), level)))

\* one is what member i wrote
json_fprint_member(m, level, i, one) ==
    IF one.fault THEN one
    ELSE WroteThen(one.out, json_fprint_members(m, level, i + 1))

json_fprint_obj_end(body, level) ==
    IF body.fault THEN body
    ELSE Wrote(body.out \o <<CH.lf>> \o json_fprint_level(level) \o <<CH.rbrace>>)

json_fprint_obj(object, level) ==
    json_fprint_obj_end(
        WroteThen(<<CH.lbrace, CH.lf>>,
                  json_fprint_members(object.data, level + 1, 1)),
        level)

json_fprint_value(object, level) ==
    IF object = NullObject THEN [out |-> <<>>, fault |-> TRUE]
    ELSE CASE object.type = "JSON_OBJECT" -> json_fprint_obj(object, level)
           [] object.type = "JSON_ARRAY" -> json_fprint_array(object, level)
           [] object.type = "JSON_STRING" -> Wrote(json_fprint_string(object.data))
           [] object.type = "JSON_NUMBER" -> Wrote(json_fprint_number(object.data))
           [] object.type = "JSON_TRUE" -> Wrote(<<CH.t, CH.r, CH.u, CH.e>>)
           [] object.type = "JSON_FALSE" -> Wrote(<<CH.f, CH.a, CH.l, CH.s, CH.e>>)
           [] object.type = "JSON_NULL" -> Wrote(<<CH.n, CH.u, CH.l, CH.l>>)

\* fprintf(file, "\n") after the value
json_fprint_end(v) == IF v.fault THEN v ELSE Wrote(v.out \o <<CH.lf>>)

\* json_fprint past its JSON_ASSERT
json_fprint(object) == json_fprint_end(json_fprint_value(object, 0))

-----------------------------------------------------------------------------
(* Accessor API, as built without NDEBUG (JSON_ASSERT is compiled in).     *)
(* A call ends by returning, by JSON_ERROR, or by reading through a NULL   *)
(* json_object_t pointer.                                                  *)

Returned(v) == [end |-> "return", ret |-> v]

JsonError == [end |-> "JSON_ERROR", ret |-> NullObject]

NullDeref == [end |-> "null_deref", ret |-> NullObject]

\* the assertion reads object->type before anything looks at object
json_get_object(object, key) ==
    IF object = NullObject THEN NullDeref
    ELSE IF object.type # "JSON_OBJECT" THEN JsonError
    ELSE Returned(json_hmap_get(object.data, key))

\* JSON_ASSERT_PROPER_CAST(json_type)
ProperCast(object, types, ret) ==
    IF object = NullObject THEN NullDeref
    ELSE IF object.type \notin types THEN JsonError
    ELSE Returned(ret)

json_to_array(object) ==
    ProperCast(object, {"JSON_ARRAY"},
               [type |-> "array", items |-> object.data.items,
                out_size |-> object.data.size])

json_to_string(object) ==
    ProperCast(object, {"JSON_STRING"}, [type |-> "string", str |-> object.data])

json_to_number(object) ==
    ProperCast(object, {"JSON_NUMBER"}, [type |-> "number", num |-> object.data])

json_to_bool(object) ==
    ProperCast(object, {"JSON_TRUE", "JSON_FALSE"},
               [type |-> "bool", bool |-> object.type = "JSON_TRUE"])

\* json_to_array, json_to_string, json_to_number, json_to_bool on what
\* json_get_object gave
json_get_cast(got, to) ==
    IF got.end # "return" THEN got
    ELSE CASE to = "array" -> json_to_array(got.ret)
           [] to = "string" -> json_to_string(got.ret)
           [] to = "number" -> json_to_number(got.ret)
           [] to = "bool" -> json_to_bool(got.ret)

\* json_get_array, json_get_string, json_get_number, json_get_bool
json_get_then(object, key, to) == json_get_cast(json_get_object(object, key), to)

json_printed(w) ==
    IF w.fault THEN NullDeref ELSE Returned([type |-> "text", out |-> w.out])

\* json_fprint and json_print with their JSON_ASSERT
json_print(object) ==
    IF object = NullObject THEN JsonError ELSE json_printed(json_fprint(object))

-----------------------------------------------------------------------------
(* The structures on their own: a vector under push and pop, a hash map    *)
(* under put, each created as the parser creates it                        *)

\* how far the vector under test is filled
MaxVecSize == 17

\* how many put calls the hash map under test receives
MaxPuts == 6

\* opaque element handles
Items == {"x", "y"}

\* keys a, i, q (one home slot of 8), h, x (another one, the last slot)
Keys == {<<97>>, <<105>>, <<113>>, <<104>>, <<120>>}

\* what an uninitialised size_t on the stack may hold
JunkVals == {0, 3}

Idle == [none |-> TRUE]

InitVec ==
    /\ sut = "vec"
    /\ LET m == json_vec_make(EmptyHeap, InitCap)
       IN heap = m.heap /\ vec = m.vec
    /\ hmap = Idle /\ hist = <<>> /\ text = <<>> /\ pc = "run"
    /\ json = Idle /\ rep = Idle /\ out = <<>> /\ json2 = Idle /\ acc = Idle
    /\ junk = 0

InitHmap ==
    /\ sut = "hmap"
    /\ LET m == json_hmap_make(EmptyHeap, InitCap)
       IN heap = m.heap /\ hmap = m.hmap
    /\ vec = Idle /\ hist = <<>> /\ text = <<>> /\ pc = "run"
    /\ json = Idle /\ rep = Idle /\ out = <<>> /\ json2 = Idle /\ acc = Idle
    /\ junk \in JunkVals

VecPush(item) ==
    /\ sut = "vec" /\ pc = "run" /\ vec.size < MaxVecSize
    /\ LET r == json_vec_push(heap, vec, item)
       IN heap' = r.heap /\ vec' = r.vec
    /\ acc' = Idle
    /\ UNCHANGED <<sut, hmap, hist, text, pc, json, rep, out, json2, junk>>

\* what json_vec_pop on an empty vector may end in: it reads data[size - 1]
\* before the JSON_ASSERT of json_vec_free_one exits
EmptyPopEnds == {"fatal", "SIGSEGV"}

VecPop ==
    /\ sut = "vec" /\ pc = "run"
    /\ IF vec.size = 0
       THEN /\ pc' \in EmptyPopEnds
            /\ UNCHANGED <<heap, vec, acc>>
       ELSE /\ LET r == json_vec_pop(heap, vec)
               IN heap' = r.heap /\ vec' = r.vec /\ acc' = [ret |-> r.item]
            /\ pc' = pc
    /\ UNCHANGED <<sut, hmap, hist, text, json, rep, out, json2, junk>>

\* json_hmap_put of a key and a fresh child
HmapPut(key) ==
    /\ sut = "hmap" /\ pc = "run" /\ Len(hist) < MaxPuts
    /\ LET object == [type |-> "child", id |-> Len(hist) + 1]
           r == json_hmap_put(heap, hmap, key, object, junk)
       IN /\ heap' = r.heap /\ hmap' = r.hmap
          /\ hist' = Append(hist, <<key, object>>)
          /\ pc' = IF r.hang THEN "hang" ELSE pc
    /\ UNCHANGED <<sut, vec, text, json, rep, out, json2, acc, junk>>

NextStruct ==
    \/ \E item \in Items : VecPush(item)
    \/ VecPop
    \/ \E key \in Keys : HmapPut(key)

SpecStruct == (InitVec \/ InitHmap) /\ [][NextStruct]_vars

-----------------------------------------------------------------------------
(* The arena alone: a json_t as json_make leaves it, under any sequence of *)
(* json_page_alloc calls                                                   *)

\* how many json_page_alloc calls the arena under test receives
MaxAllocs == 9

\* request sizes: a json_object_t, one byte below the page size, the page
\* size and one byte above it
ArenaSizes ==
    {Sizeof.json_object_t, JSON_PAGE_SIZE - 1, JSON_PAGE_SIZE, JSON_PAGE_SIZE + 1}

\* what a store past the end of the page directory may end in: the write
\* lands in the memory behind the block and the call returns, or it faults
DirOverflowEnds == {"run", "SIGSEGV"}

InitArena ==
    /\ sut = "arena"
    /\ LET made == json_make(EmptyHeap)
       IN heap = made.heap /\ json = made.json
    /\ vec = Idle /\ hmap = Idle /\ hist = <<>> /\ text = <<>> /\ pc = "run"
    /\ rep = Idle /\ out = <<>> /\ json2 = Idle /\ acc = Idle
    /\ junk = 0

\* json_page_alloc(json, size); hist lists the sizes asked for so far
PageAlloc(size) ==
    /\ sut = "arena" /\ pc = "run" /\ Len(hist) < MaxAllocs
    /\ LET r == json_page_alloc(heap, json, size)
       IN /\ heap' = r.heap /\ json' = r.json
          /\ acc' = [ret |-> r.ptr]
          /\ IF r.json.oob THEN pc' \in DirOverflowEnds ELSE pc' = pc
    /\ hist' = Append(hist, size)
    /\ UNCHANGED <<sut, vec, hmap, text, rep, out, json2, junk>>

NextArena == \E size \in ArenaSizes : PageAlloc(size)

SpecArena == InitArena /\ [][NextArena]_vars

-----------------------------------------------------------------------------
(* The document's life: load, then print and load what was printed, or ask *)
(* the accessors, or unload and go through load and unload once more       *)

RECURSIVE SeqsOfLen(_, _)
SeqsOfLen(S, n) ==
    IF n = 0 THEN {<<>>}
    ELSE {Append(x, b) : x \in SeqsOfLen(S, n - 1), b \in S}

SeqsUpTo(S, n) == UNION {SeqsOfLen(S, k) : k \in 0..n}

\* every text of up to MaxRawLen of these bytes: [ ] { } " , 1 space \n
MaxRawLen == 4

RawBytes == {91, 93, 123, 125, 34, 44, 49, 32, 10}

RawTexts == SeqsUpTo(RawBytes, MaxRawLen)

\* ["..."] around every run of up to MaxStrLen of: a " \ n u / tab 0x01 \n
MaxStrLen == 3

StrBytes == {97, 34, 92, 110, 117, 47, 9, 1, 10}

StrTexts == {<<91, 34>> \o x \o <<34, 93>> : x \in SeqsUpTo(StrBytes, MaxStrLen)}

\* [...] around a number put together from a sign, integral digits, a
\* fraction and an exponent, each of them well formed, cut short or left out
NumSign == {<<>>, <<45>>}

NumInt == {<<>>, <<48>>, <<49>>, <<49, 57>>}

NumFract == {<<>>, <<46>>, <<46, 53>>, <<46, 50, 53>>}

NumExp == {<<>>, <<101>>, <<101, 50>>, <<69, 43, 49>>, <<101, 45, 50>>,
           <<101, 45>>, <<101, 57, 57, 57>>, <<101, 45, 57, 57, 57>>}

NumTexts == {<<91>> \o s \o i \o f \o x \o <<93>> :
                s \in NumSign, i \in NumInt, f \in NumFract, x \in NumExp}

\* documents two levels deep: leaves 1 and "s", keys a and b, one child or
\* two, the first of them from V and the second from W
Leaves == {<<49>>, <<34, 115, 34>>}

DocKeys == {<<34, 97, 34, 58>>, <<34, 98, 34, 58>>}

Composites(V, W) ==
    {<<91>> \o v \o <<93>> : v \in V}
    \cup {<<91>> \o v \o <<44>> \o w \o <<93>> : v \in V, w \in W}
    \cup {<<123>> \o k \o v \o <<125>> : k \in DocKeys, v \in V}
    \cup {<<123>> \o k \o v \o <<44>> \o l \o w \o <<125>> :
             k \in DocKeys, v \in V, l \in DocKeys, w \in W}

DocTexts ==
    Composites(Leaves \cup Composites(Leaves, Leaves), Leaves)
    \cup Composites(Leaves, Leaves \cup Composites(Leaves, Leaves))

\* what may stand before the root, as the root and after it
TopLead == {<<>>, <<32>>, <<10, 9>>, <<13, 32>>}

TopCore == {<<>>, <<91, 49, 93>>, <<123, 34, 97, 34, 58, 49, 125>>,
            <<91, 116, 114, 117, 101, 44, 102, 97, 108, 115, 101, 44,
              110, 117, 108, 108, 93>>,
            <<91, 93>>, <<123, 125>>, <<91, 32, 93>>, <<123, 10, 125>>,
            <<91, 91, 93, 93>>, <<123, 34, 97, 34, 58, 91, 93, 125>>,
            <<34, 97, 34>>, <<49>>, <<45, 49>>, <<116, 114, 117, 101>>,
            <<102, 97, 108, 115, 101>>, <<110, 117, 108, 108>>, <<120>>}

TopTail == {<<>>, <<32>>, <<10>>, <<9, 13>>, <<120>>, <<32, 49>>, <<44>>, <<93>>,
            <<10, 91, 49, 93>>, <<32, 123>>}

TopTexts == {l \o c \o t : l \in TopLead, c \in TopCore, t \in TopTail}

\* arrays and objects of up to MaxWide members: [1,1,...] and {"a":1,"i":1,...}
MaxWide == 9

WideKeys == <<97, 105, 113, 104, 120, 98, 99, 100, 101, 102, 103>>

RECURSIVE WideArray(_)
WideArray(n) == IF n = 1 THEN <<49>> ELSE WideArray(n - 1) \o <<44, 49>>

RECURSIVE WideObject(_)
WideObject(n) ==
    LET member == <<34, WideKeys[((n - 1) % Len(WideKeys)) + 1], 34, 58, 49>>
    IN IF n = 1 THEN member ELSE WideObject(n - 1) \o <<44>> \o member

WideTexts == {<<91>> \o WideArray(n) \o <<93>> : n \in 1..MaxWide}
             \cup {<<123>> \o WideObject(n) \o <<125>> : n \in 1..MaxWide}

Corpus == RawTexts \cup StrTexts \cup NumTexts \cup DocTexts \cup TopTexts
          \cup WideTexts

\* the keys the accessor calls ask for: a and one that is in no document
AccessKeys == {<<97>>, <<122>>}

AccessOps == {"print", "to_array", "to_string", "to_number", "to_bool",
              "get_object", "get_array", "get_string", "get_number", "get_bool"}

\* what a read through a NULL json_object_t pointer may end in
NullDerefEnds == {"SIGSEGV", "JSON_ERROR", "return"}

InitDoc ==
    /\ sut = "doc"
    /\ text \in Corpus
    /\ pc = "init"
    /\ heap = EmptyHeap
    /\ json = Idle /\ rep = Idle /\ out = <<>> /\ json2 = Idle /\ acc = Idle
    /\ vec = Idle /\ hmap = Idle /\ hist = <<>>
    /\ junk \in JunkVals

\* the handle and the heap as json_load leaves them; a fatal error is
\* reported with json_contextual_error and ends the program
Loaded(c) ==
    /\ heap' = c.heap
    /\ json' = c.json
    /\ IF c.err
       THEN /\ pc' = "fatal"
            /\ rep' = [msg |-> c.msg, index |-> c.index, bad |-> c.bad,
                       shows |-> json_contextual_error(text, c.index)]
       ELSE /\ pc' = IF c.hang THEN "hang"
                     ELSE IF pc = "init" THEN "loaded1" ELSE "loaded2"
            /\ rep' = rep

\* json_load(&json, text); again on the same handle after json_unload
Load ==
    /\ sut = "doc" /\ pc \in {"init", "unloaded1"}
    /\ Loaded(json_load(text, heap, junk))
    /\ UNCHANGED <<sut, vec, hmap, hist, text, out, json2, acc, junk>>

\* json_unload(&json)
Unload ==
    /\ sut = "doc" /\ pc \in {"loaded1", "loaded2"}
    /\ heap' = json_unload(heap, json)
    /\ pc' = IF pc = "loaded1" THEN "unloaded1" ELSE "unloaded2"
    /\ UNCHANGED <<sut, vec, hmap, hist, text, json, rep, out, json2, acc, junk>>

\* how a call that ended r.end shows: a read through NULL ends in any of
\* NullDerefEnds
Ended(op, handle, absent, r) ==
    IF r.end = "null_deref"
    THEN \E e \in NullDerefEnds :
            acc' = [op |-> op, handle |-> handle, absent |-> absent, end |-> e,
                    null_read |-> TRUE]
    ELSE acc' = [op |-> op, handle |-> handle, absent |-> absent, end |-> r.end,
                 null_read |-> FALSE]

Printed(r) ==
    IF r.end = "return"
    THEN out' = r.ret.out /\ pc' = "printed" /\ acc' = acc
    ELSE out' = out /\ pc' = "fatal"
         /\ Ended("print", "root", json.root = NullObject, r)

\* json_fprint(file, json.root)
Fprint ==
    /\ sut = "doc" /\ pc = "loaded1"
    /\ Printed(json_print(json.root))
    /\ UNCHANGED <<sut, heap, vec, hmap, hist, text, json, rep, json2, junk>>

Reloaded(c) ==
    /\ heap' = c.heap
    /\ json2' = [err |-> c.err, hang |-> c.hang, root |-> c.json.root]

\* json_load(&json2, out) of the bytes json_fprint wrote
Reload ==
    /\ sut = "doc" /\ pc = "printed"
    /\ Reloaded(json_load(out, heap, junk))
    /\ pc' = "reloaded"
    /\ UNCHANGED <<sut, vec, hmap, hist, text, json, rep, out, acc, junk>>

\* the handle a caller holds: the root, or what json_get_object(root, key)
\* returned for an object root
Handles ==
    {[name |-> "root", object |-> json.root]}
    \cup (IF json.root # NullObject /\ json.root.type = "JSON_OBJECT"
          THEN {[name |-> "got", object |-> json_hmap_get(json.root.data, k)] :
                   k \in AccessKeys}
          ELSE {})

AccessorCall(op, object, key) ==
    CASE op = "print" -> json_print(object)
      [] op = "to_array" -> json_to_array(object)
      [] op = "to_string" -> json_to_string(object)
      [] op = "to_number" -> json_to_number(object)
      [] op = "to_bool" -> json_to_bool(object)
      [] op = "get_object" -> json_get_object(object, key)
      [] op = "get_array" -> json_get_then(object, key, "array")
      [] op = "get_string" -> json_get_then(object, key, "string")
      [] op = "get_number" -> json_get_then(object, key, "number")
      [] op = "get_bool" -> json_get_then(object, key, "bool")

\* the handle is absent, or the key's value is for a get_* that casts it
Absent(op, object, key) ==
    \/ object = NullObject
    \/ /\ op \in {"get_array", "get_string", "get_number", "get_bool"}
       /\ json_get_object(object, key) = Returned(NullObject)

\* one call of the accessor API (or of json_print) on a handle
Access(op, key) ==
    /\ sut = "doc" /\ pc = "loaded1"
    /\ \E h \in Handles :
          Ended(op, h.name, Absent(op, h.object, key),
                AccessorCall(op, h.object, key))
    /\ pc' = "called"
    /\ UNCHANGED <<sut, heap, vec, hmap, hist, text, json, rep, out, json2, junk>>

Next ==
    \/ Load
    \/ Unload
    \/ Fprint
    \/ Reload
    \/ \E op \in AccessOps, key \in AccessKeys : Access(op, key)

Spec == InitDoc /\ [][Next]_vars

-----------------------------------------------------------------------------
(* Properties.  The operators of this section read the text and the        *)
(* histories by themselves; none of them calls the parser.                 *)

\* whitespace as the specification lists it: space, tab, CR, LF
SpecWhitespace == {32, 9, 13, 10}

RECURSIVE NonWs(_)
\* the bytes of t that are not whitespace
NonWs(t) ==
    IF t = <<>> THEN <<>>
    ELSE IF Head(t) \in SpecWhitespace THEN NonWs(Tail(t))
    ELSE <<Head(t)>> \o NonWs(Tail(t))

RECURSIVE LeadWs(_)
\* how many whitespace bytes t starts with
LeadWs(t) ==
    IF t # <<>> /\ Head(t) \in SpecWhitespace THEN 1 + LeadWs(Tail(t)) ELSE 0

\* a load has run on the text
LoadDone == sut = "doc" /\ pc # "init"

\* the load ended in the contextual fatal report
LoadFailed == rep # Idle

EmptyObject(v) ==
    /\ v # NullObject
    /\ v.type = "JSON_OBJECT"
    /\ v.data.size = 0
    /\ v.data.vec.size = 0

EmptyArray(v) ==
    /\ v # NullObject
    /\ v.type = "JSON_ARRAY"
    /\ v.data.size = 0

\* C1: a text that is {} with optional whitespace loads without a fatal
\* report, and its root is an Object whose map and order vector are empty.
C1_EmptyObjectLoads ==
    (LoadDone /\ NonWs(text) = <<123, 125>>) =>
        (~LoadFailed /\ EmptyObject(json.root))

\* C2: [] with optional whitespace loads to an Array of size 0, at the top
\* level as well as nested in an array or under an object key.
C2_EmptyArrayLoads ==
    LoadDone =>
        /\ NonWs(text) = <<91, 93>> =>
              (~LoadFailed /\ EmptyArray(json.root))
        /\ NonWs(text) = <<91, 91, 93, 93>> =>
              /\ ~LoadFailed
              /\ json.root # NullObject
              /\ json.root.type = "JSON_ARRAY"
              /\ json.root.data.size = 1
              /\ EmptyArray(json.root.data.items[1])
        /\ NonWs(text) = <<123, 34, 97, 34, 58, 91, 93, 125>> =>
              /\ ~LoadFailed
              /\ json.root # NullObject
              /\ json.root.type = "JSON_OBJECT"
              /\ EmptyArray(json_hmap_get(json.root.data, <<97>>))

RECURSIVE LastPut(_, _)
\* the object of the most recent put of key in the history h
LastPut(h, key) ==
    IF h = <<>> THEN NullObject
    ELSE IF h[Len(h)][1] = key THEN h[Len(h)][2]
    ELSE LastPut(SubSeq(h, 1, Len(h) - 1), key)

RECURSIVE FirstPuts(_)
\* the keys of the history h, each once, in the order of their first put
FirstPuts(h) ==
    IF h = <<>> THEN <<>>
    ELSE LET before == FirstPuts(SubSeq(h, 1, Len(h) - 1))
             key == h[Len(h)][1]
         IN IF \E i \in 1..Len(before) : before[i] = key THEN before
            ELSE Append(before, key)

\* C3: after any sequence of puts, keys repeating or not, a get of a key
\* answers the object of its most recent put, and the order vector holds the
\* distinct keys, each once, in the order of first insertion.
C3_GetAndOrder ==
    (sut = "hmap" /\ pc = "run") =>
        /\ \A i \in 1..Len(hist) :
              json_hmap_get(hmap, hist[i][1]) = LastPut(hist, hist[i][1])
        /\ hmap.vec.items = FirstPuts(hist)

\* C4: after an unload nothing the load allocated is live and nothing was
\* freed twice, after the first unload and after load; unload; load; unload.
C4_UnloadFreesAll ==
    (sut = "doc" /\ pc \in {"unloaded1", "unloaded2"}) =>
        (DOMAIN heap.blk = {} /\ ~heap.bad)

VecSound(v) == v.cap >= v.size /\ v.cap >= v.min_cap /\ v.min_cap = InitCap

\* C5: whatever pushes and pops a vector and whatever puts a map has seen,
\* the capacity is at least the size and at least the minimum capacity the
\* structure was made with.
C5_CapacityBounds ==
    /\ sut = "vec" => VecSound(vec)
    /\ sut = "hmap" =>
          /\ hmap.cap >= hmap.size
          /\ hmap.cap >= hmap.min_cap
          /\ hmap.min_cap = InitCap
          /\ VecSound(hmap.vec)

\* C5 witness: a vector that grew past its first capacity and was popped
\* down to where json_vec_free_one stops halving
C5_ShrunkToMinimum ==
    /\ sut = "vec" /\ pc = "run"
    /\ acc # Idle
    /\ vec.cap = vec.min_cap
    /\ vec.size < vec.cap \div 4
    /\ heap.blk[vec.data].copied > 0

RECURSIVE Closer(_, _, _, _)
\* the position of the bracket that closes the one opened at the first
\* position scanned, brackets inside string literals not counting; 0 if none
Closer(t, i, depth, in_string) ==
    IF i > Len(t) THEN 0
    ELSE IF in_string
    THEN IF t[i] = 92 THEN Closer(t, i + 2, depth, TRUE)
         ELSE Closer(t, i + 1, depth, t[i] # 34)
    ELSE IF t[i] = 34 THEN Closer(t, i + 1, depth, TRUE)
    ELSE IF t[i] \in {123, 91} THEN Closer(t, i + 1, depth + 1, FALSE)
    ELSE IF t[i] \in {125, 93}
    THEN IF depth = 1 THEN i ELSE Closer(t, i + 1, depth - 1, FALSE)
    ELSE Closer(t, i + 1, depth, FALSE)

\* only whitespace follows position i of t
BlankAfter(t, i) == \A k \in (i + 1)..Len(t) : t[k] \in SpecWhitespace

\* C6: a blank text loads with the root absent; a text whose first byte
\* after whitespace is not { or [ is fatal; and a text that loads has one
\* object or array as its root with only whitespace behind it.
C6_TopLevel ==
    LoadDone =>
        /\ NonWs(text) = <<>> => (~LoadFailed /\ json.root = NullObject)
        /\ (NonWs(text) # <<>> /\ Head(NonWs(text)) \notin {123, 91}) =>
              LoadFailed
        /\ (NonWs(text) # <<>> /\ ~LoadFailed) =>
              /\ Head(NonWs(text)) \in {123, 91}
              /\ json.root # NullObject
              /\ json.root.type = (IF Head(NonWs(text)) = 123
                                   THEN "JSON_OBJECT" ELSE "JSON_ARRAY")
              /\ Closer(text, LeadWs(text) + 1, 0, FALSE) > 0
              /\ BlankAfter(text, Closer(text, LeadWs(text) + 1, 0, FALSE))

\* C6 witness: a loaded root with whitespace before it and behind it
C6_PaddedRootLoaded ==
    /\ sut = "doc" /\ pc = "loaded1"
    /\ json.root # NullObject
    /\ Len(text) > 2
    /\ text[1] \in SpecWhitespace
    /\ text[Len(text)] \in SpecWhitespace

RECURSIVE RawControlInString(_, _, _)
\* some byte 0x00..0x1F of t at position i or later lies inside a string
\* literal
RawControlInString(t, i, in_string) ==
    IF i > Len(t) THEN FALSE
    ELSE IF in_string
    THEN IF t[i] < 32 THEN TRUE
         ELSE IF t[i] = 92 THEN RawControlInString(t, i + 2, TRUE)
         ELSE RawControlInString(t, i + 1, t[i] # 34)
    ELSE RawControlInString(t, i + 1, t[i] = 34)

\* C7: a text with a raw control byte 0x00..0x1F inside a string literal
\* never loads.
C7_ControlBytesRejected ==
    (LoadDone /\ RawControlInString(text, 1, FALSE)) => LoadFailed

\* the 0-based index at which the line of the byte at index i starts
LineStart(t, i) ==
    LET ends == {k \in 1..i : t[k] = 10}
    IN IF ends = {} THEN 0 ELSE CHOOSE k \in ends : \A m \in ends : m <= k

\* the 1-based position of the last byte of the line of the byte at index i
LineEnd(t, i) ==
    LET ends == {k \in (i + 1)..Len(t) : t[k] = 10}
    IN IF ends = {} THEN Len(t)
       ELSE (CHOOSE k \in ends : \A m \in ends : k <= m) - 1

\* the report the specification describes for an offending byte at index i
ReportAt(t, i) ==
    [line |-> 1 + Cardinality({k \in 1..i : t[k] = 10}),
     shown |-> SubSeq(t, LineStart(t, i) + 1, LineEnd(t, i)),
     caret |-> i - LineStart(t, i)]

\* C8: the fatal report names the line of the offending byte, counting from
\* 1, shows that whole line, and puts its caret in the column of the
\* offending byte.
C8_ReportAtOffendingByte ==
    (sut = "doc" /\ LoadFailed) =>
        /\ rep.shows.line = ReportAt(text, rep.bad).line
        /\ rep.shows.shown = ReportAt(text, rep.bad).shown
        /\ rep.shows.caret = ReportAt(text, rep.bad).caret

\* C9: print, the to_* casts and the get_* lookups end in the library's
\* fatal path when the handle they are given is absent, without reading
\* through it and without returning.
C9_AbsentHandleFatal ==
    (sut = "doc" /\ acc # Idle /\ acc.absent) =>
        (acc.end = "JSON_ERROR" /\ ~acc.null_read)

RECURSIVE SameTree(_, _)
\* a and b have the same shape and equal String, True, False and Null leaves
SameTree(a, b) ==
    /\ a.type = b.type
    /\ CASE a.type = "JSON_ARRAY" ->
               /\ a.data.size = b.data.size
               /\ \A i \in 1..a.data.size :
                     SameTree(a.data.items[i], b.data.items[i])
         [] a.type = "JSON_OBJECT" ->
               /\ a.data.vec.items = b.data.vec.items
               /\ \A i \in 1..Len(a.data.vec.items) :
                     SameTree(json_hmap_get(a.data, a.data.vec.items[i]),
                              json_hmap_get(b.data, a.data.vec.items[i]))
         [] a.type = "JSON_STRING" -> a.data = b.data
         [] OTHER -> TRUE

\* C10: what json_fprint wrote for a loaded document loads again, to a tree
\* of the same shape with equal String, True, False and Null leaves.
C10_PrintReloads ==
    (sut = "doc" /\ pc = "reloaded") =>
        /\ ~json2.err
        /\ json2.root # NullObject
        /\ SameTree(json.root, json2.root)

\* C14: every json_fat_realloc copies no more bytes from the old block than
\* the new block it allocated can hold.
C14_ReallocCopiesWithinNew ==
    \A p \in DOMAIN heap.blk : heap.blk[p].copied <= heap.blk[p].size

\* C11: after any sequence of arena allocations the current page index is
\* below the capacity of the page directory, and no page address was stored
\* at an index outside the directory.
C11_PagesInsideDirectory ==
    sut = "arena" => (json.cur_page < json.page_cap /\ ~json.oob)

\* the slots of m that hold a node
Occupied(m) == {k \in 1..m.cap : m.slots[k].hash # HashZero}

\* no node of m has the hash of key
HashAbsent(m, key) == \A k \in Occupied(m) : m.slots[k].hash # json_hash_str(key)

\* the keys looked up: the keys put and two that never are
ProbeKeys == Keys \cup {<<122>>, <<112>>}

\* C12: after every put, rehashes included, at most half of the slots are
\* occupied, so one is empty; no probe loop of put or get runs without end,
\* and a get of a key whose hash no node has reports absent.
C12_HalfEmpty ==
    sut = "hmap" =>
        /\ pc # "hang"
        /\ Cardinality(Occupied(hmap)) = hmap.size
        /\ 2 * Cardinality(Occupied(hmap)) <= hmap.cap
        /\ Occupied(hmap) # 1..hmap.cap
        /\ \A key \in ProbeKeys :
              /\ ~json_hmap_get_node(hmap, json_hash_str(key)).hang
              /\ HashAbsent(hmap, key) =>
                    /\ json_hmap_get_node(hmap, json_hash_str(key)).slot = 0
                    /\ json_hmap_get(hmap, key) = NullObject

\* C12 witness: a map that was rehashed to twice its first capacity, with a
\* node that sits behind its home slot, and a key it does not hold
C12_RehashedAndProbed ==
    /\ sut = "hmap" /\ pc = "run"
    /\ hmap.cap = 2 * hmap.min_cap
    /\ \E k \in Occupied(hmap) : HashMod(hmap.slots[k].hash, hmap.cap) + 1 # k
    /\ HashAbsent(hmap, <<122>>)
    /\ json_hmap_get(hmap, <<122>>) = NullObject

\* ds is a run of one decimal digit or more
IsDigits(ds) == ds # <<>> /\ \A k \in 1..Len(ds) : ds[k] \in 48..57

RECURSIVE DigitsValue(_)
\* the number a run of decimal digits writes
DigitsValue(ds) ==
    IF ds = <<>> THEN 0
    ELSE 10 * DigitsValue(SubSeq(ds, 1, Len(ds) - 1)) + (ds[Len(ds)] - 48)

\* the literal of the text [literal], without its sign
LitBody(t) == SubSeq(t, IF t[2] = 45 THEN 3 ELSE 2, Len(t) - 1)

\* the places of the dots in the literal
LitDots(t) == {k \in 1..Len(LitBody(t)) : LitBody(t)[k] = 46}

\* t is [literal] with a literal of an optional '-', an integer digit run,
\* a '.' and a fractional digit run, and no exponent
IsFractionLiteral(t) ==
    /\ Len(t) >= 5 /\ t[1] = 91 /\ t[Len(t)] = 93
    /\ \E k \in LitDots(t) :
          /\ IsDigits(SubSeq(LitBody(t), 1, k - 1))
          /\ IsDigits(SubSeq(LitBody(t), k + 1, Len(LitBody(t))))

\* the double x is (-1)^neg * M / 10^n
IsDecimal(x, neg, M, n) ==
    /\ ~x.inf
    /\ IF M = 0 THEN x.m = 0
       ELSE x.neg = neg /\ x.e + n >= 0 /\ x.m * 10^(x.e + n) = M

\* C13: a literal without exponent, with integer digits I and fractional
\* digits d1..dn, parses to I + d1/10 + ... + dn/10^n, negated under a
\* leading '-': the digits of the literal with the dot taken out, over 10^n.
C13_FractionDigitsInOrder ==
    (LoadDone /\ ~LoadFailed /\ IsFractionLiteral(text)) =>
        \A k \in LitDots(text) :
            IsDecimal(json.root.data.items[1].data, text[2] = 45,
                DigitsValue(SubSeq(LitBody(text), 1, k - 1)
                            \o SubSeq(LitBody(text), k + 1, Len(LitBody(text)))),
                Len(LitBody(text)) - k)


====
